---- MODULE Spec2Model ----
(***************************************************************************)
(* Verification model of custo-transporte-app (river barge convoy cost     *)
(* simulator and design/operation optimizer).                              *)
(*                                                                         *)
(* Two specifications share the module:                                    *)
(*   Spec       the functions of helpers.py / analysis.py called as they   *)
(*              are written, one call per step, including the calls that   *)
(*              fail to bind their arguments;                              *)
(*   SpecBusca  the search of run_global_optimization (analysis.py         *)
(*              604-812) with the sizing and physics results of each       *)
(*              design candidate taken as inputs from bounded sets.        *)
(*                                                                         *)
(* Numbers: Python floats are modelled by integers in scaled units         *)
(* (decimetres, tons, hours) and quotients by exact fractions              *)
(* [num, den]; float('inf') is the fraction with den = 0.                  *)
(***************************************************************************)
EXTENDS Integers, Sequences, FiniteSets, TLC

VARIABLES
    chamada,            \* Spec: the last call made and what it produced
    pc,                 \* SpecBusca: position inside run_global_optimization
    d,                  \* index of v_design in velocidades_projeto (1-based)
    bhp_instalado,      \* power ceiling of the current design candidate
    CUSTO_FIXO_ANUAL,   \* fixed annual cost of the current design candidate
    calado_mes,         \* draft computed for the month whose options were built last
    lista_prof_meses,   \* the depth profile passed to the optimizer (decimetres)
    fisica,             \* required power, cargo and fuel cost of each (month, operating speed)
    opcoes_meses,       \* feasible-options table: sequence (months) of sequences
    design_valido,
    indices_escolhidos, \* chosen option index per month (1-based)
    melhorou,
    m,                  \* month of the coordinate-descent sweep (1-based)
    total_carga,
    total_custo_var,
    custo_global_atual, \* fraction [num, den]
    menor_custo_global, \* fraction, Inf at start
    melhor_cenario_global,      \* <<>> for None, else <<record>>
    melhor_tabela_mensal_global,
    historico_simulacoes

varsBusca == <<pc, d, bhp_instalado, CUSTO_FIXO_ANUAL, calado_mes, lista_prof_meses, fisica,
               opcoes_meses, design_valido, indices_escolhidos, melhorou, m,
               total_carga, total_custo_var, custo_global_atual,
               menor_custo_global, melhor_cenario_global,
               melhor_tabela_mensal_global, historico_simulacoes>>

vars == <<chamada, pc, d, bhp_instalado, CUSTO_FIXO_ANUAL, calado_mes, lista_prof_meses, fisica,
          opcoes_meses, design_valido, indices_escolhidos, melhorou, m,
          total_carga, total_custo_var, custo_global_atual,
          menor_custo_global, melhor_cenario_global,
          melhor_tabela_mensal_global, historico_simulacoes>>

----------------------------------------------------------------------------
(* Bounds *)

MaxMeses    == 2    \* months of the depth profile (12 in the application)
MaxDesigns  == 2    \* design speeds tried (61 in np.arange(4.0, 10.1, 0.1))
MaxVelOp    == 2    \* operating speeds tried per month (first points of the grid)
MaxCarga    == 2    \* largest monthly cargo of an option
MaxCusto    == 2    \* largest monthly fuel cost of an option, in tens
MaxCiclo    == 7    \* largest cycle time tried, hours
MaxDias     == 3    \* largest number of available days tried
MaxDemanda  == 5    \* largest demand tried, tons
MaxCapacid  == 3    \* largest unit capacity tried, tons
MaxComp     == 2    \* largest hull length tried in the arrangement
MaxBoca     == 3    \* largest hull beam tried in the arrangement
MaxRaio     == 40   \* largest bend radius tried in the arrangement
MaxLargura  == 16   \* largest channel width tried in the arrangement
MaxTotal    == 3    \* largest annual total (cost, cargo, emissions) tried in a closing block

----------------------------------------------------------------------------
(* Arithmetic helpers *)

Min(a, b) == IF a <= b THEN a ELSE b

Max(a, b) == IF a >= b THEN a ELSE b

RECURSIVE MaxSeq(_)
MaxSeq(s) == IF Len(s) = 1 THEN s[1] ELSE Max(s[1], MaxSeq(Tail(s)))

\* math.floor(a / b) for b > 0
Floor(a, b) == a \div b

\* math.ceil(a / b) for b > 0
Ceil(a, b) == -((-a) \div b)

Frac(n, dd) == [num |-> n, den |-> dd]

Inf == Frac(1, 0)

\* x < y on fractions with non-negative denominators (Inf has den = 0)
FracLt(x, y) == x.num * y.den < y.num * x.den

FracLe(x, y) == x.num * y.den <= y.num * x.den

FracEq(x, y) == x.num * y.den = y.num * x.den

\* the quotient n / dd (dd # 0) with its sign carried by the numerator
FracN(n, dd) == IF dd < 0 THEN Frac(-n, -dd) ELSE Frac(n, dd)

\* math.floor of a fraction with positive denominator
FloorFrac(x) == x.num \div x.den

----------------------------------------------------------------------------
(* Python call binding: a call binds when every parameter without a        *)
(* default receives a positional or a keyword argument.                    *)

\* helpers.calcular_bhp_propulsao: parameter names in order, and those with defaults
ParamsBhpPropulsao ==
    <<"comp_balsa", "boca_balsa", "calado_m", "n_long", "n_par", "vel_nos",
      "largura_canal_m", "profundidade_canal_m", "eficiencia_global">>

DefaultsBhpPropulsao == {"eficiencia_global"}

\* engine.calcular_opex_variavel: parameter names in order (none has a default)
ParamsOpexVariavel ==
    <<"distancia_km", "dias_operacao_periodo", "largura_canal", "profundidade_rio",
      "vel_embarcacao_nos", "vel_correnteza_nos", "calado_operacional",
      "comp_balsa", "boca_balsa", "pontal_balsa", "coef_bloco",
      "num_balsas_long", "num_balsas_par", "eficiencia_propulsor",
      "tempo_eclusa_por_viagem_min", "tempo_manobra_por_balsa_min",
      "prod_carregamento_th", "prod_descarregamento_th", "num_bercos",
      "consumo_especifico_motor", "preco_combustivel", "densidade_combustivel">>

\* number of positional arguments analysis.py passes to calcular_bhp_propulsao
PosArgsBhpAnalysis == 7

\* keyword arguments analysis.py passes to calcular_opex_variavel
KwArgsOpexAnalysis ==
    {"distancia_km", "dias_operacao_periodo",
     "vel_embarcacao_nos", "vel_correnteza_nos", "calado_operacional",
     "comp_balsa", "boca_balsa", "pontal_balsa", "coef_bloco",
     "num_balsas_long", "num_balsas_par", "eficiencia_propulsor",
     "tempo_eclusa_por_viagem_min", "tempo_manobra_por_balsa_min",
     "prod_carregamento_th", "prod_descarregamento_th", "num_bercos",
     "consumo_especifico_motor", "preco_combustivel", "densidade_combustivel"}

\* parameters left without a value by a call with npos positional and kw keyword arguments
MissingArgs(params, defaults, npos, kw) ==
    {params[k] : k \in (npos + 1)..Len(params)} \ (kw \cup defaults)

CallBinds(params, defaults, npos, kw) ==
    /\ npos <= Len(params)
    /\ kw \subseteq {params[k] : k \in (npos + 1)..Len(params)}
    /\ MissingArgs(params, defaults, npos, kw) = {}

BhpSizingCallBinds ==
    CallBinds(ParamsBhpPropulsao, DefaultsBhpPropulsao, PosArgsBhpAnalysis, {})

OpexVariavelCallBinds ==
    CallBinds(ParamsOpexVariavel, {}, 0, KwArgsOpexAnalysis)

----------------------------------------------------------------------------
(* Pure helpers *)

\* variant: a started trip counts as a trip (rounds up)
ViagensArredondaParaCima(tempo_ciclo_h, dias_disponiveis) ==
    IF tempo_ciclo_h <= 0 THEN 0
    ELSE Ceil(dias_disponiveis * 24, tempo_ciclo_h)

\* helpers.calcular_numero_viagens_periodo; tempo_ciclo_h in hours, dias in days
calcular_numero_viagens_periodo(tempo_ciclo_h, dias_disponiveis) ==
    IF tempo_ciclo_h <= 0 THEN 0
    ELSE Floor(dias_disponiveis * 24, tempo_ciclo_h)

\* variant: the fleet is rounded down
FrotaArredondaParaBaixo(demanda_total_anual, capacidade_anual_unitaria) ==
    IF capacidade_anual_unitaria <= 0 THEN 0
    ELSE Floor(demanda_total_anual, capacidade_anual_unitaria)

\* helpers.calcular_frota_necessaria
calcular_frota_necessaria(demanda_total_anual, capacidade_anual_unitaria) ==
    IF capacidade_anual_unitaria <= 0 THEN 0
    ELSE Ceil(demanda_total_anual, capacidade_anual_unitaria)

\* helpers.calcular_calado_maximo_operacional (the clamped draft; analysis.py does not call it)
calcular_calado_maximo_operacional(profundidade_rio_m, folga_seguranca_m, calado_design_m) ==
    Max(0, Min(profundidade_rio_m - folga_seguranca_m, calado_design_m))

\* the monthly draft as analysis.py computes it (lines 111 and 656)
CaladoMes(calado_design_alvo, prof, folga_seguranca) ==
    Min(calado_design_alvo, prof - folga_seguranca)

\* variant: the number of barges in line is not capped
SemTetoLong(x) == x

\* helpers.py line 167: the theoretical number in line is capped at 7
TetoLong(x) == IF FracLe(x, Frac(7, 1)) THEN x ELSE Frac(7, 1)

\* helpers.py line 168: the theoretical number abreast is capped at 5
TetoPar(x) == IF FracLe(x, Frac(5, 1)) THEN x ELSE Frac(5, 1)

\* variant: the convoy is never taken as wider than long
NuncaLargo(razao_aspecto) == FALSE

\* helpers.py line 177: the convoy would be wider than long
ComboioLargo(razao_aspecto) == FracLt(razao_aspecto, Frac(1, 1))

\* helpers.calcular_arranjo_comboio; the four lengths share one unit
calcular_arranjo_comboio(comp_balsa, boca_balsa, raio_curvatura_rio, largura_canal_rio) ==
    IF comp_balsa = 0
    THEN [exc |-> "ZeroDivisionError", linha |-> 167, n_long |-> 0, n_par |-> 0]
    ELSE IF boca_balsa = 0
    THEN [exc |-> "ZeroDivisionError", linha |-> 168, n_long |-> 0, n_par |-> 0]
    ELSE LET n_long_teorico == TetoLong(FracN(raio_curvatura_rio, 5 * comp_balsa))
             n_par_teorico == TetoPar(FracN(largura_canal_rio, boca_balsa))
             num_long == Max(1, FloorFrac(n_long_teorico))
         IN  IF n_par_teorico.num = 0
             THEN [exc |-> "ZeroDivisionError", linha |-> 175, n_long |-> 0, n_par |-> 0]
             ELSE LET razao_aspecto == FracN(num_long * n_par_teorico.den, n_par_teorico.num)
                      num_par == IF ComboioLargo(razao_aspecto)
                                 THEN num_long + 1
                                 ELSE FloorFrac(n_par_teorico)
                  IN  [exc |-> "none", linha |-> 185,
                       n_long |-> num_long, n_par |-> Max(1, num_par)]

\* helpers.calcular_tempo_porto_total: hours in port per trip
calcular_tempo_porto_total(carga_total_ton, prod_carregamento_th, prod_descarregamento_th, num_bercos) ==
    IF num_bercos <= 0
    THEN [exc |-> "none", linha |-> 527, valor |-> <<Inf>>]
    ELSE IF prod_carregamento_th = 0
    THEN [exc |-> "ZeroDivisionError", linha |-> 530, valor |-> <<>>]
    ELSE IF prod_descarregamento_th = 0
    THEN [exc |-> "ZeroDivisionError", linha |-> 531, valor |-> <<>>]
    ELSE [exc |-> "none", linha |-> 533,
          valor |-> <<FracN(carga_total_ton * (prod_carregamento_th + prod_descarregamento_th),
                            prod_carregamento_th * prod_descarregamento_th * num_bercos)>>]

\* helpers.calcular_bhp_propulsao, lines 409-415: what the geometry terms produce.
\* Draft and depth share one unit; beam and width are in centimetres.  The power
\* itself is not computed: "real" stands for a finite float, "complex" for the
\* complex number Python returns for a negative base raised to a fractional power.
BhpPropulsaoSaida(calado_m, n_par, boca_balsa, largura_canal_m, profundidade_canal_m) ==
    LET b_total == boca_balsa * n_par
        folga_lateral == largura_canal_m - b_total
        \* 0.6 + 15.24 / folga_lateral < 0, folga_lateral in centimetres
        expoente_negativo == folga_lateral < 0 /\ folga_lateral > -2540
    IN  IF profundidade_canal_m = calado_m
        THEN [exc |-> "ZeroDivisionError", linha |-> 409, tipo |-> "none"]
        ELSE IF folga_lateral = 0
        THEN [exc |-> "ZeroDivisionError", linha |-> 414, tipo |-> "none"]
        ELSE IF calado_m = 0 /\ expoente_negativo
        THEN [exc |-> "ZeroDivisionError", linha |-> 415, tipo |-> "none"]
        ELSE IF calado_m < 0
        THEN [exc |-> "none", linha |-> 455, tipo |-> "complex"]
        ELSE [exc |-> "none", linha |-> 455, tipo |-> "real"]

----------------------------------------------------------------------------
(* Spec: calls of the repository's functions as written; a behaviour is    *)
(* one call of one function.                                               *)

NoCall == [fn |-> "none", args |-> <<>>, exc |-> "none", linha |-> 0,
           ret |-> <<>>, loc |-> <<>>]

\* input values (depths and drafts in decimetres)
Profundidades   == {3, 20, 50}
ProfundidadesBusca == {3, 50}                       \* depths tried in the search
CaladosDesign   == {37}
Folgas          == {5}
Overrides       == {<<>>, <<0>>, <<1000>>}         \* None, 0.0, a forced power
VelMensais      == {<<>>, [k \in 1..MaxMeses |-> 60 + k]}   \* None or a list (tenths of knots)
VelFixa         == 60                               \* params['vel_embarcacao_nos'], tenths of knots
CustosUnitarios == {0, 7}                           \* custo_total_anual of a unit result
Investimentos   == {0, 9}                           \* investimento_inicial of a unit result

\* params passed to the entry points: hull length and beam, bend radius and
\* channel width (centimetres), and the number of berths
ParamsEntrada ==
    [comp_balsa : {0, 6096}, boca_balsa : {1067, 12000}, raio_curvatura : {80000},
     largura_canal : {0, 3201, 10000}, num_bercos : {0, 2}]

\* values tried when helpers.calcular_arranjo_comboio is called on its own
Comprimentos == (-1..MaxComp) \cup {6096}
Bocas        == (-1..MaxBoca) \cup {1067}
Raios        == (1..MaxRaio) \cup {80000}
Larguras     == (-1..MaxLargura) \cup {2500, 10000}

\* Python truthiness of an optional value held as <<>> (None) or <<v>>
Truthy(opt) == opt # <<>> /\ opt # <<0>>

\* helpers.calcular_numero_viagens_periodo called on its own
ViagensPeriodo ==
    /\ chamada = NoCall
    /\ \E c \in -1..MaxCiclo, dias \in 0..MaxDias :
        /\ chamada' = [fn |-> "calcular_numero_viagens_periodo",
                       args |-> [tempo_ciclo_h |-> c, dias_disponiveis |-> dias],
                       exc |-> "none", linha |-> 0,
                       ret |-> [valor |-> calcular_numero_viagens_periodo(c, dias)],
                       loc |-> <<>>]
        /\ UNCHANGED varsBusca

\* variant: the guard lets a capacity of exactly zero through
CapacidadeNegativa(capacidade_unitaria) == capacidade_unitaria < 0

\* the guard of analysis._calcular_frota_demanda (line 205)
CapacidadeNula(capacidade_unitaria) == capacidade_unitaria <= 0

\* analysis._calcular_frota_demanda
FrotaDemandaResultado(res_unitario, demanda_total) ==
    LET capacidade_unitaria == res_unitario.carga_anual
        frota_necessaria == calcular_frota_necessaria(demanda_total, capacidade_unitaria)
        custo_total_frota == res_unitario.custo_total_anual * frota_necessaria
        investimento_frota == res_unitario.investimento_inicial * frota_necessaria
        args == [res_unitario |-> res_unitario, demanda_total |-> demanda_total]
    IN  IF CapacidadeNula(capacidade_unitaria)
        THEN [fn |-> "_calcular_frota_demanda", args |-> args,
              exc |-> "none", linha |-> 206,
              ret |-> [frota_necessaria |-> 0,
                       custo_final_por_tonelada_demandada |-> Inf,
                       investimento_total_frota |-> 0,
                       custo_anual_operacao_frota |-> 0],
              loc |-> <<>>]
        ELSE IF demanda_total = 0
        THEN [fn |-> "_calcular_frota_demanda", args |-> args,
              exc |-> "ZeroDivisionError", linha |-> 218,
              ret |-> <<>>,
              loc |-> [frota_necessaria |-> frota_necessaria]]
        ELSE [fn |-> "_calcular_frota_demanda", args |-> args,
              exc |-> "none", linha |-> 220,
              ret |-> [frota_necessaria |-> frota_necessaria,
                       capacidade_frota |-> capacidade_unitaria * frota_necessaria,
                       investimento_total_frota |-> investimento_frota,
                       custo_anual_operacao_frota |-> custo_total_frota,
                       custo_final_por_tonelada_demandada |->
                           Frac(custo_total_frota, demanda_total)],
              loc |-> [frota_necessaria |-> frota_necessaria]]

FrotaDemanda ==
    /\ chamada = NoCall
    /\ \E cap \in -1..MaxCapacid, dem \in -1..MaxDemanda,
       custo \in CustosUnitarios, inv \in Investimentos :
        /\ chamada' = FrotaDemandaResultado(
                          [carga_anual |-> cap, custo_total_anual |-> custo,
                           investimento_inicial |-> inv], dem)
        /\ UNCHANGED varsBusca

\* analysis._simular_ano_operacional up to the point where it stops
SimularAnoResultado(params, lista_prof, calado_design_alvo, folga_seguranca, velocidades_mensais, override_bhp) ==
    LET args == [params |-> params,
                 lista_prof_meses |-> lista_prof,
                 calado_design_alvo |-> calado_design_alvo,
                 folga_seguranca |-> folga_seguranca,
                 velocidades_mensais |-> velocidades_mensais,
                 override_bhp |-> override_bhp]
        calado_maximo_ano == Min(calado_design_alvo,
                                 MaxSeq(lista_prof) - folga_seguranca)
        v_design == IF velocidades_mensais # <<>>
                    THEN MaxSeq(velocidades_mensais) ELSE VelFixa
        calado_1 == CaladoMes(calado_design_alvo, lista_prof[1], folga_seguranca)
        v_1 == IF velocidades_mensais # <<>> THEN velocidades_mensais[1] ELSE VelFixa
        arranjo == calcular_arranjo_comboio(params.comp_balsa, params.boca_balsa,
                                            params.raio_curvatura, params.largura_canal)
    IN  IF arranjo.exc # "none"
        THEN [fn |-> "_simular_ano_operacional", args |-> args,
              exc |-> arranjo.exc, linha |-> 66, ret |-> <<>>,
              loc |-> [calado_maximo_ano |-> calado_maximo_ano, v_design |-> v_design,
                       bhp_instalado |-> <<>>, i |-> -1,
                       calado_mes |-> <<>>, v_mes |-> <<>>]]
        ELSE IF ~Truthy(override_bhp) /\ ~BhpSizingCallBinds
        THEN [fn |-> "_simular_ano_operacional", args |-> args,
              exc |-> "TypeError", linha |-> 81, ret |-> <<>>,
              loc |-> [calado_maximo_ano |-> calado_maximo_ano, v_design |-> v_design,
                       bhp_instalado |-> <<>>, i |-> -1,
                       calado_mes |-> <<>>, v_mes |-> <<>>]]
        ELSE IF ~OpexVariavelCallBinds
        THEN [fn |-> "_simular_ano_operacional", args |-> args,
              exc |-> "TypeError", linha |-> 117, ret |-> <<>>,
              loc |-> [calado_maximo_ano |-> calado_maximo_ano, v_design |-> v_design,
                       bhp_instalado |-> override_bhp, i |-> 0,
                       calado_mes |-> <<calado_1>>, v_mes |-> <<v_1>>]]
        ELSE [fn |-> "_simular_ano_operacional", args |-> args,
              exc |-> "none", linha |-> 170, ret |-> <<"AnnualResult">>,
              loc |-> [calado_maximo_ano |-> calado_maximo_ano, v_design |-> v_design,
                       bhp_instalado |-> override_bhp, i |-> Len(lista_prof) - 1,
                       calado_mes |-> <<CaladoMes(calado_design_alvo,
                                                  lista_prof[Len(lista_prof)],
                                                  folga_seguranca)>>,
                       v_mes |-> <<v_1>>]]

SimularAno ==
    /\ chamada = NoCall
    /\ \E params \in ParamsEntrada, prof \in [1..MaxMeses -> Profundidades],
       cd \in CaladosDesign, fs \in Folgas, vm \in VelMensais, ob \in Overrides :
        /\ chamada' = SimularAnoResultado(params, prof, cd, fs, vm, ob)
        /\ UNCHANGED varsBusca

\* analysis.run_global_optimization from its entry to the first sizing call
OtimizacaoGlobalEntrada(params, lista_prof, calado_design_alvo, folga_seguranca) ==
    LET args == [params |-> params,
                 lista_prof_meses |-> lista_prof,
                 calado_design_alvo |-> calado_design_alvo,
                 folga_seguranca |-> folga_seguranca]
        calado_maximo == Min(calado_design_alvo,
                             MaxSeq(lista_prof) - folga_seguranca)
        arranjo == calcular_arranjo_comboio(params.comp_balsa, params.boca_balsa,
                                            params.raio_curvatura, params.largura_canal)
    IN  IF arranjo.exc # "none"
        THEN [fn |-> "run_global_optimization", args |-> args,
              exc |-> arranjo.exc, linha |-> 618, ret |-> <<>>,
              loc |-> [calado_maximo |-> calado_maximo, v_design_idx |-> 1,
                       melhor_cenario_global |-> <<>>,
                       melhor_tabela_mensal_global |-> <<>>,
                       historico_simulacoes |-> <<>>]]
        ELSE IF ~BhpSizingCallBinds
        THEN [fn |-> "run_global_optimization", args |-> args,
              exc |-> "TypeError", linha |-> 629, ret |-> <<>>,
              loc |-> [calado_maximo |-> calado_maximo, v_design_idx |-> 1,
                       melhor_cenario_global |-> <<>>,
                       melhor_tabela_mensal_global |-> <<>>,
                       historico_simulacoes |-> <<>>]]
        ELSE [fn |-> "run_global_optimization", args |-> args,
              exc |-> "none", linha |-> 646, ret |-> <<>>,
              loc |-> [calado_maximo |-> calado_maximo, v_design_idx |-> 1,
                       melhor_cenario_global |-> <<>>,
                       melhor_tabela_mensal_global |-> <<>>,
                       historico_simulacoes |-> <<>>]]

OtimizacaoGlobal ==
    /\ chamada = NoCall
    /\ \E params \in ParamsEntrada, prof \in [1..MaxMeses -> Profundidades],
       cd \in CaladosDesign, fs \in Folgas :
        /\ chamada' = OtimizacaoGlobalEntrada(params, prof, cd, fs)
        /\ UNCHANGED varsBusca

\* helpers.calcular_arranjo_comboio called on its own
ArranjoComboio ==
    /\ chamada = NoCall
    /\ \E comp \in Comprimentos, boca \in Bocas, raio \in Raios, largura \in Larguras :
        LET r == calcular_arranjo_comboio(comp, boca, raio, largura)
        IN  /\ chamada' = [fn |-> "calcular_arranjo_comboio",
                           args |-> [comp_balsa |-> comp, boca_balsa |-> boca,
                                     raio_curvatura_rio |-> raio,
                                     largura_canal_rio |-> largura],
                           exc |-> r.exc, linha |-> r.linha,
                           ret |-> [n_long |-> r.n_long, n_par |-> r.n_par],
                           loc |-> <<>>]
            /\ UNCHANGED varsBusca

\* helpers.calcular_tempo_porto_total called on its own
TempoPorto ==
    /\ chamada = NoCall
    /\ \E carga \in 0..MaxCarga, pc_th \in 0..MaxCarga, pd_th \in 0..MaxCarga,
       bercos \in -1..MaxCarga :
        LET r == calcular_tempo_porto_total(carga, pc_th, pd_th, bercos)
        IN  /\ chamada' = [fn |-> "calcular_tempo_porto_total",
                           args |-> [carga_total_ton |-> carga,
                                     prod_carregamento_th |-> pc_th,
                                     prod_descarregamento_th |-> pd_th,
                                     num_bercos |-> bercos],
                           exc |-> r.exc, linha |-> r.linha,
                           ret |-> r.valor, loc |-> <<>>]
            /\ UNCHANGED varsBusca

\* helpers.calcular_bhp_propulsao called on its own with all of its arguments
BhpPropulsao ==
    /\ chamada = NoCall
    /\ \E calado \in {-2, 0, 20, 37}, prof \in Profundidades, n_par \in {1, 3},
       boca \in {1067}, largura \in {1000, 2500, 3201, 10000} :
        LET r == BhpPropulsaoSaida(calado, n_par, boca, largura, prof)
        IN  /\ chamada' = [fn |-> "calcular_bhp_propulsao",
                           args |-> [calado_m |-> calado, n_par |-> n_par,
                                     boca_balsa |-> boca, largura_canal_m |-> largura,
                                     profundidade_canal_m |-> prof],
                           exc |-> r.exc, linha |-> r.linha,
                           ret |-> [tipo |-> r.tipo], loc |-> <<>>]
            /\ UNCHANGED varsBusca

----------------------------------------------------------------------------
(* SpecBusca: the search of run_global_optimization.  The required power,   *)
(* cargo and fuel cost of each (month, operating speed) are results of     *)
(* helpers.py and engine.py formulas that do not depend on the design      *)
(* speed; here they are inputs drawn from bounded sets, fixed for the      *)
(* whole call.  The installed power grows with the design speed and the    *)
(* fixed annual cost grows with the installed power.                       *)

\* required powers tried: within the 0.1% tolerance of the first candidate's
\* ceiling, and beyond it
BhpNecessarios == {1001, 1002}

\* lines 629-632: bhp_instalado of candidate k (grows with v_design)
BhpInstaladoDe(k) == 1000 + 2 * (k - 1)

\* lines 636-644: CUSTO_FIXO_ANUAL of a candidate (linear in the installed power)
CustoFixoDe(bhp) == 10 + 5 * (bhp - 1000)

\* v_design of candidate k, tenths of knots: np.arange(4.0, 10.1, 0.1)
VelocidadeProjeto(k) == 40 + (k - 1)

\* v_op of grid point k, tenths of knots: np.arange(3.0, v_design + 2.0, 0.1)
VelocidadeOp(k) == 30 + (k - 1)

\* physics results possible at a given draft: a hull with no positive draft
\* carries nothing (helpers.calcular_capacidade_carga_balsa clamps at 0)
Fisica(calado) ==
    [bhp_necessario : BhpNecessarios,
     carga : IF calado > 0 THEN 0..MaxCarga ELSE {0},
     custo_variavel_total : {10 * k : k \in 1..MaxCusto}]

\* line 656: the month draft in the search, for the structural draft and clearance tried
CaladoMesBusca(prof) ==
    CaladoMes(CHOOSE c \in CaladosDesign : TRUE, prof, CHOOSE f \in Folgas : TRUE)

\* variant: no speed is dropped for lack of power
PotenciaNuncaExcede(bhp_necessario, bhp_inst) == FALSE

\* line 673: the speed is dropped when the required power exceeds the ceiling by more than 0.1%
PotenciaExcede(bhp_necessario, bhp_inst) == bhp_necessario * 1000 > bhp_inst * 1001

\* variant: options that move no cargo are stored as well
OpcaoQualquer(carga) == TRUE

\* line 701: only options that move cargo are stored
OpcaoTransporta(carga) == carga > 0

\* line 705: 10% overhead on the fuel cost
ComOverhead(custo) == (custo * 110) \div 100

\* lines 659-708: the options of one month, in grid order
RECURSIVE OpcoesDoMes(_, _, _, _)
OpcoesDoMes(fis, k, calado, bhp_inst) ==
    IF k > Len(fis) THEN <<>>
    ELSE IF PotenciaExcede(fis[k].bhp_necessario, bhp_inst)
              \/ ~OpcaoTransporta(fis[k].carga)
         THEN OpcoesDoMes(fis, k + 1, calado, bhp_inst)
         ELSE <<[v_op |-> VelocidadeOp(k),
                 carga |-> fis[k].carga,
                 custo_var |-> ComOverhead(fis[k].custo_variavel_total),
                 calado |-> calado]>>
              \o OpcoesDoMes(fis, k + 1, calado, bhp_inst)

\* variant: the descent starts past the last option of every month
IndiceAlemDoFim(opts) == Len(opts) + 1

\* variant: the descent starts at the first option of every month
IndicePrimeiro(opts) == 1

\* line 724: the median-index option (1-based)
IndiceInicial(opts) == (Len(opts) \div 2) + 1

RECURSIVE SomaCampo(_, _, _, _)
\* lines 732-733: sum of a field over the chosen option of each month
SomaCampo(opcoes, indices, campo, k) ==
    IF k > Len(opcoes) THEN 0
    ELSE (IF campo = "carga" THEN opcoes[k][indices[k]].carga
                             ELSE opcoes[k][indices[k]].custo_var)
         + SomaCampo(opcoes, indices, campo, k + 1)

\* variant: no option ever replaces the current one
NuncaMelhora(novo_global, min_custo_global_teste) == FALSE

\* variant: the option that moves more cargo replaces the best one seen
MelhoraPorCarga(novo_global, min_custo_global_teste) ==
    novo_global.den > min_custo_global_teste.den

\* variant: the comparison is reversed, a costlier option replaces the best one seen
MelhoraInvertida(novo_global, min_custo_global_teste) ==
    FracLt(min_custo_global_teste, novo_global)

\* line 755: an option replaces the best one seen when its objective is strictly lower
Melhora(novo_global, min_custo_global_teste) ==
    FracLt(novo_global, min_custo_global_teste)

\* lines 749-757: scan of the options of one month; [idx, custo] of the best one
RECURSIVE MelhorOpcaoMes(_, _, _, _, _, _, _)
MelhorOpcaoMes(opts, i, melhor_idx_mes, min_custo_global_teste, base_carga, base_custo_var, fixo) ==
    IF i > Len(opts) THEN [idx |-> melhor_idx_mes, custo |-> min_custo_global_teste]
    ELSE LET novo_global == Frac(fixo + base_custo_var + opts[i].custo_var,
                                 base_carga + opts[i].carga)
         IN  IF Melhora(novo_global, min_custo_global_teste)
             THEN MelhorOpcaoMes(opts, i + 1, i, novo_global,
                                 base_carga, base_custo_var, fixo)
             ELSE MelhorOpcaoMes(opts, i + 1, melhor_idx_mes, min_custo_global_teste,
                                 base_carga, base_custo_var, fixo)

\* variant: the running total keeps the contribution of the option left behind
TotalDoInicio(base, contrib_nova, contrib_antiga) == base + contrib_antiga

\* variant: the running total loses the month altogether
TotalSemContribuicao(base, contrib_nova, contrib_antiga) == base

\* lines 763-764: the running total after an accepted change
TotalAtualizado(base, contrib_nova, contrib_antiga) == base + contrib_nova

\* variant: the month's index is never replaced
MudouNunca(melhor_idx_mes, idx_atual) == FALSE

\* variant: every month counts as changed
MudouSempre(melhor_idx_mes, idx_atual) == TRUE

\* line 760: the month's index is replaced when the scan chose another option
Mudou(melhor_idx_mes, idx_atual) == melhor_idx_mes # idx_atual

\* variant: every candidate replaces the best
SuperaSempre(custo, menor) == TRUE

\* variant: a candidate of equal objective replaces the best
SuperaOuIguala(custo, menor) == FracLe(custo, menor)

\* variant: the comparison is reversed, a costlier candidate replaces the best
SuperaMelhorInvertida(custo, menor) == FracLt(menor, custo)

\* line 769: a candidate becomes the best when its objective is strictly lower
SuperaMelhor(custo, menor) == FracLt(custo, menor)

\* variant: the table stops one month short
TabelaSemUltimoMes(opcoes, indices) ==
    [k \in 1..(Len(opcoes) - 1) |->
        [Mes |-> k,
         calado |-> opcoes[k][indices[k]].calado,
         v_op |-> opcoes[k][indices[k]].v_op,
         carga |-> opcoes[k][indices[k]].carga]]

\* lines 776-789: the monthly table of a candidate
TabelaDetalhada(opcoes, indices) ==
    [k \in 1..Len(opcoes) |->
        [Mes |-> k,
         calado |-> opcoes[k][indices[k]].calado,
         v_op |-> opcoes[k][indices[k]].v_op,
         carga |-> opcoes[k][indices[k]].carga]]

InitBusca ==
    /\ chamada = NoCall
    /\ lista_prof_meses \in [1..MaxMeses -> ProfundidadesBusca]
    /\ fisica \in [1..MaxMeses -> [1..MaxVelOp -> Fisica(1)]]
    /\ \A k \in 1..MaxMeses : \A v \in 1..MaxVelOp :
           fisica[k][v] \in Fisica(CaladoMesBusca(lista_prof_meses[k]))
    /\ pc = "design"
    /\ d = 1
    /\ bhp_instalado = 0
    /\ CUSTO_FIXO_ANUAL = 0
    /\ calado_mes = 0
    /\ opcoes_meses = <<>>
    /\ design_valido = TRUE
    /\ indices_escolhidos = <<>>
    /\ melhorou = FALSE
    /\ m = 1
    /\ total_carga = 0
    /\ total_custo_var = 0
    /\ custo_global_atual = Inf
    /\ menor_custo_global = Inf
    /\ melhor_cenario_global = <<>>
    /\ melhor_tabela_mensal_global = <<>>
    /\ historico_simulacoes = <<>>

\* lines 611-653: next design speed, its power ceiling and fixed cost
ProximoDesign ==
    /\ pc = "design"
    /\ d <= MaxDesigns
    /\ bhp_instalado' = BhpInstaladoDe(d)
    /\ CUSTO_FIXO_ANUAL' = CustoFixoDe(bhp_instalado')
    /\ opcoes_meses' = <<>>
    /\ design_valido' = TRUE
    /\ pc' = "tabela"
    /\ UNCHANGED <<chamada, d, lista_prof_meses, fisica, calado_mes, indices_escolhidos,
                   melhorou, m, total_carga, total_custo_var, custo_global_atual,
                   menor_custo_global, melhor_cenario_global,
                   melhor_tabela_mensal_global, historico_simulacoes>>

\* lines 655-717: the options of the next month; an empty month ends the candidate
MontaMes ==
    /\ pc = "tabela"
    /\ LET mes == Len(opcoes_meses) + 1
           calado == CaladoMesBusca(lista_prof_meses[mes])
       IN  /\ calado_mes' = calado
           /\ LET opcoes_deste_mes == OpcoesDoMes(fisica[mes], 1, calado, bhp_instalado)
                IN  IF opcoes_deste_mes = <<>>
                    THEN /\ design_valido' = FALSE
                         /\ d' = d + 1
                         /\ pc' = "design"
                         /\ UNCHANGED opcoes_meses
                    ELSE /\ opcoes_meses' = Append(opcoes_meses, opcoes_deste_mes)
                         /\ pc' = IF mes = MaxMeses THEN "inicial" ELSE "tabela"
                         /\ UNCHANGED <<design_valido, d>>
    /\ UNCHANGED <<chamada, lista_prof_meses, fisica, bhp_instalado, CUSTO_FIXO_ANUAL,
                   indices_escolhidos, melhorou, m, total_carga, total_custo_var,
                   custo_global_atual, menor_custo_global, melhor_cenario_global,
                   melhor_tabela_mensal_global, historico_simulacoes>>

\* lines 724-726: the initial state of the coordinate descent
EstadoInicial ==
    /\ pc = "inicial"
    /\ indices_escolhidos' = [k \in 1..Len(opcoes_meses) |-> IndiceInicial(opcoes_meses[k])]
    /\ melhorou' = TRUE
    /\ pc' = "while"
    /\ UNCHANGED <<chamada, d, lista_prof_meses, fisica, bhp_instalado, CUSTO_FIXO_ANUAL,
                   calado_mes, opcoes_meses, design_valido, m, total_carga,
                   total_custo_var, custo_global_atual, menor_custo_global,
                   melhor_cenario_global, melhor_tabela_mensal_global,
                   historico_simulacoes>>

\* lines 728-736: a new sweep starts; the totals are recomputed from the index vector
InicioVarredura ==
    /\ pc = "while"
    /\ melhorou
    /\ melhorou' = FALSE
    /\ total_carga' = SomaCampo(opcoes_meses, indices_escolhidos, "carga", 1)
    /\ total_custo_var' = SomaCampo(opcoes_meses, indices_escolhidos, "custo_var", 1)
    /\ custo_global_atual' = Frac(CUSTO_FIXO_ANUAL + total_custo_var', total_carga')
    /\ m' = 1
    /\ pc' = "mes"
    /\ UNCHANGED <<chamada, d, lista_prof_meses, fisica, bhp_instalado, CUSTO_FIXO_ANUAL,
                   calado_mes, opcoes_meses, design_valido, indices_escolhidos,
                   menor_custo_global, melhor_cenario_global,
                   melhor_tabela_mensal_global, historico_simulacoes>>

\* lines 739-766: one month of the sweep
PassoMes ==
    /\ pc = "mes"
    /\ LET idx_atual == indices_escolhidos[m]
           base_carga == total_carga - opcoes_meses[m][idx_atual].carga
           base_custo_var == total_custo_var - opcoes_meses[m][idx_atual].custo_var
           melhor == MelhorOpcaoMes(opcoes_meses[m], 1, idx_atual, custo_global_atual,
                                    base_carga, base_custo_var, CUSTO_FIXO_ANUAL)
       IN  IF Mudou(melhor.idx, idx_atual)
           THEN /\ indices_escolhidos' = [indices_escolhidos EXCEPT ![m] = melhor.idx]
                /\ total_carga' = TotalAtualizado(base_carga,
                                                  opcoes_meses[m][melhor.idx].carga,
                                                  opcoes_meses[m][idx_atual].carga)
                /\ total_custo_var' = TotalAtualizado(base_custo_var,
                                                      opcoes_meses[m][melhor.idx].custo_var,
                                                      opcoes_meses[m][idx_atual].custo_var)
                /\ custo_global_atual' = melhor.custo
                /\ melhorou' = TRUE
           ELSE UNCHANGED <<indices_escolhidos, total_carga, total_custo_var,
                            custo_global_atual, melhorou>>
    /\ IF m = MaxMeses
       THEN /\ pc' = "while"
            /\ m' = m
       ELSE /\ pc' = "mes"
            /\ m' = m + 1
    /\ UNCHANGED <<chamada, d, lista_prof_meses, fisica, bhp_instalado, CUSTO_FIXO_ANUAL,
                   calado_mes, opcoes_meses, design_valido, menor_custo_global,
                   melhor_cenario_global, melhor_tabela_mensal_global,
                   historico_simulacoes>>

\* lines 728, 768-806: the descent has converged; compare and record the candidate
Registro ==
    /\ pc = "while"
    /\ ~melhorou
    /\ IF SuperaMelhor(custo_global_atual, menor_custo_global)
       THEN /\ menor_custo_global' = custo_global_atual
            /\ melhor_cenario_global' =
                   <<[v_design_otima |-> VelocidadeProjeto(d),
                      bhp_ideal |-> bhp_instalado,
                      custo_minimo_global |-> custo_global_atual,
                      carga_anual |-> total_carga]>>
            /\ melhor_tabela_mensal_global' =
                   TabelaDetalhada(opcoes_meses, indices_escolhidos)
       ELSE UNCHANGED <<menor_custo_global, melhor_cenario_global,
                        melhor_tabela_mensal_global>>
    /\ historico_simulacoes' = Append(historico_simulacoes,
                                      [v_design |-> VelocidadeProjeto(d),
                                       custo_ton |-> custo_global_atual])
    /\ d' = d + 1
    /\ pc' = "design"
    /\ UNCHANGED <<chamada, lista_prof_meses, fisica, bhp_instalado, CUSTO_FIXO_ANUAL,
                   calado_mes, opcoes_meses, design_valido, indices_escolhidos,
                   melhorou, m, total_carga, total_custo_var, custo_global_atual>>

\* lines 611, 808-812: the design speeds are exhausted; return
Retorno ==
    /\ pc = "design"
    /\ d > MaxDesigns
    /\ pc' = "fim"
    /\ UNCHANGED <<chamada, d, lista_prof_meses, fisica, bhp_instalado, CUSTO_FIXO_ANUAL,
                   calado_mes, opcoes_meses, design_valido, indices_escolhidos,
                   melhorou, m, total_carga, total_custo_var, custo_global_atual,
                   menor_custo_global, melhor_cenario_global,
                   melhor_tabela_mensal_global, historico_simulacoes>>

NextBusca ==
    \/ ProximoDesign
    \/ MontaMes
    \/ EstadoInicial
    \/ InicioVarredura
    \/ PassoMes
    \/ Registro
    \/ Retorno

SpecBusca == InitBusca /\ [][NextBusca]_vars

\* the search is one sequential computation: whatever step is enabled is taken
SpecBuscaJusta == SpecBusca /\ WF_vars(NextBusca)

----------------------------------------------------------------------------

Init ==
    /\ chamada = NoCall
    /\ lista_prof_meses = [k \in 1..MaxMeses |-> 0]
    /\ fisica = <<>>
    /\ pc = "idle"
    /\ d = 1
    /\ bhp_instalado = 0
    /\ CUSTO_FIXO_ANUAL = 0
    /\ calado_mes = 0
    /\ opcoes_meses = <<>>
    /\ design_valido = TRUE
    /\ indices_escolhidos = <<>>
    /\ melhorou = FALSE
    /\ m = 1
    /\ total_carga = 0
    /\ total_custo_var = 0
    /\ custo_global_atual = Inf
    /\ menor_custo_global = Inf
    /\ melhor_cenario_global = <<>>
    /\ melhor_tabela_mensal_global = <<>>
    /\ historico_simulacoes = <<>>

Next ==
    \/ ViagensPeriodo
    \/ FrotaDemanda
    \/ SimularAno
    \/ OtimizacaoGlobal
    \/ ArranjoComboio
    \/ TempoPorto
    \/ BhpPropulsao

Spec == Init /\ [][Next]_vars

----------------------------------------------------------------------------
(* SpecFecho: the closing blocks that turn annual totals into unit cost    *)
(* and carbon intensity, with the totals accumulated by the monthly loop   *)
(* taken as inputs.                                                        *)

\* analysis.py line 152 (_simular_ano_operacional)
CustoUnitarioAno(custo_total_anual, carga_anual_total) ==
    IF carga_anual_total > 0 THEN Frac(custo_total_anual, carga_anual_total) ELSE Inf

\* analysis.py line 155 (_simular_ano_operacional)
IntensidadeCarbonoAno(emissoes_anual_total, carga_anual_total) ==
    IF carga_anual_total > 0
    THEN Frac(emissoes_anual_total * 1000, carga_anual_total)
    ELSE Frac(0, 1)

\* analysis.py line 336 (run_detailed_base_simulation)
CustoUnitarioBase(custo_total_anual, carga_total) ==
    IF carga_total > 0 THEN Frac(custo_total_anual, carga_total) ELSE Frac(0, 1)

\* analysis.py line 337 (run_detailed_base_simulation)
IntensidadeCarbonoBase(emissoes_totais, carga_total) ==
    IF carga_total > 0 THEN Frac(emissoes_totais * 1000, carga_total) ELSE Frac(0, 1)

\* engine.py line 414 (calcular_custos_comboio)
CustoPorTonelada(custo_total_anual, carga_total) ==
    IF carga_total > 0 THEN Frac(custo_total_anual, carga_total) ELSE Frac(0, 1)

\* analysis.py lines 150-155
FechoSimularAno ==
    /\ chamada = NoCall
    /\ \E fixo \in 0..MaxTotal, var \in 0..MaxTotal, carga \in 0..MaxTotal,
       emissoes \in 0..MaxTotal :
        LET custo_total_anual == fixo + var
        IN  /\ chamada' = [fn |-> "fecho:_simular_ano_operacional",
                           args |-> [custo_fixo_anual_total |-> fixo,
                                     custo_variavel_anual_total |-> var,
                                     carga_anual_total |-> carga,
                                     emissoes_anual_total |-> emissoes],
                           exc |-> "none", linha |-> 155,
                           ret |-> [custo_total_anual |-> custo_total_anual,
                                    custo_unitario |->
                                        CustoUnitarioAno(custo_total_anual, carga),
                                    intensidade_carbono |->
                                        IntensidadeCarbonoAno(emissoes, carga)],
                           loc |-> <<>>]
            /\ UNCHANGED varsBusca

\* analysis.py lines 335-337
FechoSimulacaoBase ==
    /\ chamada = NoCall
    /\ \E custo \in 0..MaxTotal, carga \in 0..MaxTotal, emissoes \in 0..MaxTotal :
        /\ chamada' = [fn |-> "fecho:run_detailed_base_simulation",
                       args |-> [custo_total_anual |-> custo, carga_total |-> carga,
                                 emissoes_totais |-> emissoes],
                       exc |-> "none", linha |-> 337,
                       ret |-> [custo_unitario |-> CustoUnitarioBase(custo, carga),
                                intensidade_carbono |->
                                    IntensidadeCarbonoBase(emissoes, carga)],
                       loc |-> <<>>]
        /\ UNCHANGED varsBusca

\* engine.py lines 413-414
FechoCustosComboio ==
    /\ chamada = NoCall
    /\ \E custo \in 0..MaxTotal, carga \in 0..MaxTotal, viagens \in 0..MaxTotal :
        /\ chamada' = [fn |-> "fecho:calcular_custos_comboio",
                       args |-> [custo_total_anual |-> custo,
                                 carga_por_viagem |-> carga, num_viagens |-> viagens],
                       exc |-> "none", linha |-> 414,
                       ret |-> [custo_por_tonelada |->
                                    CustoPorTonelada(custo, carga * viagens)],
                       loc |-> <<>>]
        /\ UNCHANGED varsBusca

NextFecho ==
    \/ FechoSimularAno
    \/ FechoSimulacaoBase
    \/ FechoCustosComboio

SpecFecho == Init /\ [][NextFecho]_vars

----------------------------------------------------------------------------
(* Properties of the search (SpecBusca)                                    *)

\* the objective of the current index vector, from the table itself
ObjetivoGlobal ==
    Frac(CUSTO_FIXO_ANUAL + SomaCampo(opcoes_meses, indices_escolhidos, "custo_var", 1),
         SomaCampo(opcoes_meses, indices_escolhidos, "carga", 1))

\* some month's index differs from the initial (median) one
IndiceMovido ==
    /\ Len(indices_escolhidos) = Len(opcoes_meses)
    /\ \E k \in 1..Len(opcoes_meses) :
           indices_escolhidos[k] # IndiceInicial(opcoes_meses[k])

\* C1: within one design candidate, a coordinate-descent step that changes the
\* index vector never leaves a global objective greater than the one before it.
C1_ObjetivoNaoCresce ==
    [][(pc = "mes" /\ indices_escolhidos' # indices_escolhidos)
           => FracLe(ObjetivoGlobal', ObjetivoGlobal)]_vars

C1_Witness == pc = "while" /\ melhorou /\ IndiceMovido

\* C2: the coordinate descent of every candidate terminates and the optimizer
\* reaches its return after the last design speed.
C2_Termina == <>(pc = "fim")

C2_Witness ==
    /\ pc = "fim"
    /\ Len(historico_simulacoes) = MaxDesigns
    /\ IndiceMovido

\* C5: when the optimizer returns with at least one feasible candidate, the best
\* design's objective is the minimum of the converged objectives of the curve.
C5_MelhorEhMinimo ==
    (pc = "fim" /\ historico_simulacoes # <<>>) =>
        /\ melhor_cenario_global # <<>>
        /\ melhor_cenario_global[1].custo_minimo_global = menor_custo_global
        /\ \A k \in 1..Len(historico_simulacoes) :
               FracLe(menor_custo_global, historico_simulacoes[k].custo_ton)
        /\ \E k \in 1..Len(historico_simulacoes) :
               FracEq(menor_custo_global, historico_simulacoes[k].custo_ton)

C5_Witness ==
    /\ pc = "fim"
    /\ Len(historico_simulacoes) = 2
    /\ FracLt(historico_simulacoes[2].custo_ton, historico_simulacoes[1].custo_ton)
    /\ melhor_cenario_global # <<>>
    /\ melhor_cenario_global[1].v_design_otima = historico_simulacoes[2].v_design

----------------------------------------------------------------------------
(* Properties of the functions as called (Spec)                            *)

\* a profile month whose draft is not positive carries no cargo at any speed
MesSemCalado(args, k) ==
    CaladoMes(args.calado_design_alvo, args.lista_prof_meses[k], args.folga_seguranca) <= 0

\* C3: a call of run_global_optimization in which a month leaves every design
\* candidate without options skips those candidates and does not raise.
C3_DesignInviavelNaoAborta ==
    (/\ chamada.fn = "run_global_optimization"
     /\ \E k \in 1..MaxMeses : MesSemCalado(chamada.args, k))
        => chamada.exc = "none"

\* C4: when every candidate is infeasible (no month has a positive draft),
\* run_global_optimization returns normally with no best design and an empty table.
C4_SemSolucaoRetornaNulo ==
    (/\ chamada.fn = "run_global_optimization"
     /\ \A k \in 1..MaxMeses : MesSemCalado(chamada.args, k))
        => /\ chamada.exc = "none"
           /\ chamada.linha = 808
           /\ chamada.loc.melhor_cenario_global = <<>>
           /\ chamada.loc.melhor_tabela_mensal_global = <<>>

\* C6: calcular_numero_viagens_periodo returns a non-negative integer, the floor
\* of dias * 24 / ciclo for ciclo > 0, 0 for ciclo <= 0, and no more trips for
\* fewer days.
C6_ViagensPiso ==
    chamada.fn = "calcular_numero_viagens_periodo" =>
        LET c == chamada.args.tempo_ciclo_h
            dias == chamada.args.dias_disponiveis
            r == chamada.ret.valor
        IN  /\ r \in Nat
            /\ c <= 0 => r = 0
            /\ c > 0 => (r * c <= dias * 24 /\ dias * 24 < (r + 1) * c)
            /\ \A menos \in 0..dias :
                   calcular_numero_viagens_periodo(c, menos) <= r

C6_Witness ==
    /\ chamada.fn = "calcular_numero_viagens_periodo"
    /\ chamada.args.tempo_ciclo_h > 0
    /\ chamada.ret.valor > 0
    /\ (chamada.args.dias_disponiveis * 24) % chamada.args.tempo_ciclo_h # 0

\* C7: the draft the annual simulator uses for a month is at most the structural
\* draft, at most depth minus clearance, and not negative.
C7_CaladoLimitado ==
    (chamada.fn = "_simular_ano_operacional" /\ chamada.loc.calado_mes # <<>>) =>
        LET calado == chamada.loc.calado_mes[1]
            prof == chamada.args.lista_prof_meses[chamada.loc.i + 1]
        IN  /\ calado <= chamada.args.calado_design_alvo
            /\ calado <= prof - chamada.args.folga_seguranca
            /\ calado >= 0

\* n = ceil(a / b), stated without division
IsCeil(n, a, b) ==
    \/ b > 0 /\ (n - 1) * b < a /\ a <= n * b
    \/ b < 0 /\ (n - 1) * b > a /\ a >= n * b

C9_SentinelaCapacidadeNula ==
    (/\ chamada.fn = "_calcular_frota_demanda"
     /\ chamada.args.res_unitario.carga_anual <= 0) =>
        /\ chamada.exc = "none"
        /\ chamada.ret.frota_necessaria = 0
        /\ chamada.ret.investimento_total_frota = 0
        /\ chamada.ret.custo_anual_operacao_frota = 0
        /\ chamada.ret.custo_final_por_tonelada_demandada = Inf

C9_Witness ==
    /\ chamada.fn = "_calcular_frota_demanda"
    /\ chamada.args.res_unitario.carga_anual = 0
    /\ chamada.args.demanda_total = 0
    /\ chamada.args.res_unitario.custo_total_anual > 0
    /\ chamada.ret.custo_final_por_tonelada_demandada = Inf

----------------------------------------------------------------------------
(* Zero cargo, invalid geometry, invalid configuration                     *)

\* C11: a call of _simular_ano_operacional in which no month has a positive
\* draft (no hull capacity, annual cargo 0) returns normally with unit cost
\* +infinity.
C11_CargaZeroCustoInfinito ==
    (/\ chamada.fn = "_simular_ano_operacional"
     /\ \A k \in 1..MaxMeses : MesSemCalado(chamada.args, k))
        => /\ chamada.exc = "none"
           /\ chamada.ret.custo_unitario = Inf

\* C12: every closing block that meets zero total cargo yields +infinity for
\* the unit cost and for the carbon intensity it computes.
C12_CargaZeroSentinelaInfinita ==
    /\ (chamada.fn = "fecho:_simular_ano_operacional"
            /\ chamada.args.carga_anual_total = 0)
           => /\ chamada.ret.custo_unitario = Inf
              /\ chamada.ret.intensidade_carbono = Inf
    /\ (chamada.fn = "fecho:run_detailed_base_simulation"
            /\ chamada.args.carga_total = 0)
           => /\ chamada.ret.custo_unitario = Inf
              /\ chamada.ret.intensidade_carbono = Inf
    /\ (chamada.fn = "fecho:calcular_custos_comboio"
            /\ chamada.args.carga_por_viagem * chamada.args.num_viagens = 0)
           => chamada.ret.custo_por_tonelada = Inf

\* the geometry a call of run_global_optimization hands to the power formula
\* is invalid: the channel is not wider than the convoy, or a month's depth is
\* not greater than its draft
GeometriaInvalidaEntrada(args) ==
    LET arranjo == calcular_arranjo_comboio(args.params.comp_balsa, args.params.boca_balsa,
                                            args.params.raio_curvatura,
                                            args.params.largura_canal)
    IN  /\ arranjo.exc = "none"
        /\ \/ args.params.largura_canal <= arranjo.n_par * args.params.boca_balsa
           \/ \E k \in 1..MaxMeses :
                  args.lista_prof_meses[k]
                      <= CaladoMes(args.calado_design_alvo, args.lista_prof_meses[k],
                                   args.folga_seguranca)

\* C13: invalid geometry does not make run_global_optimization raise, and the
\* power formula called with invalid geometry neither raises nor yields a
\* computed power that could enter the options table.
C13_GeometriaInvalidaInviavel ==
    /\ (chamada.fn = "run_global_optimization" /\ GeometriaInvalidaEntrada(chamada.args))
           => chamada.exc = "none"
    /\ (/\ chamada.fn = "calcular_bhp_propulsao"
        /\ \/ chamada.args.largura_canal_m <= chamada.args.n_par * chamada.args.boca_balsa
           \/ chamada.args.profundidade_canal_m <= chamada.args.calado_m)
           => /\ chamada.exc = "none"
              /\ chamada.ret.tipo \notin {"real", "complex"}

\* a configuration the entry points should refuse
ConfigInvalida(params) ==
    \/ params.comp_balsa <= 0
    \/ params.boca_balsa <= 0
    \/ params.raio_curvatura <= 0
    \/ params.largura_canal <= 0
    \/ params.num_bercos <= 0

\* C14: an entry point called with an invalid configuration ends in an explicit
\* input-validation failure, and a port time asked for zero berths is refused
\* rather than returned as a number.
C14_ConfigInvalidaRejeitada ==
    /\ (/\ chamada.fn \in {"_simular_ano_operacional", "run_global_optimization"}
        /\ ConfigInvalida(chamada.args.params))
           => chamada.exc = "ValidationError"
    /\ (chamada.fn = "calcular_tempo_porto_total" /\ chamada.args.num_bercos <= 0)
           => chamada.exc = "ValidationError"

----------------------------------------------------------------------------
(* Convoy arrangement                                                       *)

\* the arguments of a calcular_arranjo_comboio call are all positive
ArranjoPositivo ==
    /\ chamada.fn = "calcular_arranjo_comboio"
    /\ chamada.args.comp_balsa > 0
    /\ chamada.args.boca_balsa > 0
    /\ chamada.args.raio_curvatura_rio > 0
    /\ chamada.args.largura_canal_rio > 0

\* C15: for positive arguments calcular_arranjo_comboio returns 1 <= n_long <= 7,
\* 1 <= n_par <= 5 and n_long <= max(1, floor(raio / 5 / comp)).
C15_ArranjoLimitado ==
    ArranjoPositivo =>
        /\ chamada.exc = "none"
        /\ chamada.ret.n_long \in 1..7
        /\ chamada.ret.n_par \in 1..5
        /\ chamada.ret.n_long
               <= Max(1, chamada.args.raio_curvatura_rio \div (5 * chamada.args.comp_balsa))

C15_Witness ==
    /\ ArranjoPositivo
    /\ chamada.args.raio_curvatura_rio \div (5 * chamada.args.comp_balsa) > 7
    /\ chamada.args.largura_canal_rio \div chamada.args.boca_balsa > 5
    /\ chamada.ret.n_long = 7
    /\ chamada.ret.n_par = 5

\* C16: when the channel fits at least one hull, the convoy returned by
\* calcular_arranjo_comboio is not wider than the channel:
\* n_par <= floor(largura / boca).
C16_ColunasCabemNoCanal ==
    (ArranjoPositivo /\ chamada.args.largura_canal_rio >= chamada.args.boca_balsa) =>
        /\ chamada.ret.n_par <= chamada.args.largura_canal_rio \div chamada.args.boca_balsa
        /\ chamada.ret.n_par * chamada.args.boca_balsa <= chamada.args.largura_canal_rio

\* scenario A, in centimetres: hull 60.96 m x 10.67 m, bend radius 800 m, channel 100 m
CenarioA ==
    /\ chamada.fn = "calcular_arranjo_comboio"
    /\ chamada.args = [comp_balsa |-> 6096, boca_balsa |-> 1067,
                       raio_curvatura_rio |-> 80000, largura_canal_rio |-> 10000]

\* C17: in scenario A calcular_arranjo_comboio returns n_long = 2 and n_par = 3.
C17_CenarioA ==
    CenarioA => /\ chamada.exc = "none"
                /\ chamada.ret.n_long = 2
                /\ chamada.ret.n_par = 3

C17_Witness ==
    /\ CenarioA
    /\ chamada.ret.n_long * chamada.ret.n_par = 6

----------------------------------------------------------------------------
(* Coordinate descent                                                      *)

\* the objective when month k takes option i and the other months keep theirs
ObjetivoCom(k, i) ==
    LET ind == [indices_escolhidos EXCEPT ![k] = i]
    IN  Frac(CUSTO_FIXO_ANUAL + SomaCampo(opcoes_meses, ind, "custo_var", 1),
             SomaCampo(opcoes_meses, ind, "carga", 1))

\* the descent of the current candidate has ended (line 728 leaves the loop)
Convergiu == pc = "while" /\ ~melhorou

\* C18: at convergence no single month can take another option and give a
\* strictly lower global objective.
C18_OtimoLocal ==
    Convergiu =>
        \A k \in 1..Len(opcoes_meses) : \A i \in 1..Len(opcoes_meses[k]) :
            ~FracLt(ObjetivoCom(k, i), ObjetivoGlobal)

C18_Witness ==
    /\ Convergiu
    /\ IndiceMovido
    /\ \A k \in 1..Len(opcoes_meses) : Len(opcoes_meses[k]) = MaxVelOp

\* C19: a step of the sweep for month m leaves every other month's index alone;
\* when some option of month m gives a strictly lower objective the step moves to
\* an option whose objective is the minimum over the month's options, strictly
\* below the previous objective; otherwise the index vector is unchanged.
C19_PassoDeUmMes ==
    [][pc = "mes" =>
          /\ \A k \in 1..Len(opcoes_meses) :
                 k # m => indices_escolhidos'[k] = indices_escolhidos[k]
          /\ IF \E i \in 1..Len(opcoes_meses[m]) : FracLt(ObjetivoCom(m, i), ObjetivoGlobal)
             THEN /\ indices_escolhidos'[m] # indices_escolhidos[m]
                  /\ FracLt(ObjetivoGlobal', ObjetivoGlobal)
                  /\ \A i \in 1..Len(opcoes_meses[m]) :
                         FracLe(ObjetivoGlobal', ObjetivoCom(m, i))
             ELSE indices_escolhidos' = indices_escolhidos]_vars

C19_Witness ==
    /\ pc = "mes"
    /\ m = 2
    /\ melhorou
    /\ indices_escolhidos[1] # IndiceInicial(opcoes_meses[1])
    /\ indices_escolhidos[2] = IndiceInicial(opcoes_meses[2])

\* C20: the descent of every feasible candidate starts, for each month, at the
\* option of index floor(number of options / 2), counted from 0.
C20_InicioMediana ==
    [][pc = "inicial" =>
          /\ Len(indices_escolhidos') = MaxMeses
          /\ \A k \in 1..MaxMeses :
                 indices_escolhidos'[k] - 1 = Len(opcoes_meses[k]) \div 2]_vars

C20_Witness ==
    /\ pc = "while"
    /\ melhorou
    /\ \E k \in 1..MaxMeses : Len(opcoes_meses[k]) = 2 /\ indices_escolhidos[k] = 2
    /\ \E k \in 1..MaxMeses : Len(opcoes_meses[k]) = 1 /\ indices_escolhidos[k] = 1

----------------------------------------------------------------------------
(* A design candidate evaluated on its own: lines 611-766 as a function of  *)
(* the candidate's rank and of the inputs of the call.                      *)

\* lines 655-717: the options table of candidate k
TabelaDoCandidato(k) ==
    [mes \in 1..MaxMeses |->
        OpcoesDoMes(fisica[mes], 1, CaladoMesBusca(lista_prof_meses[mes]),
                    BhpInstaladoDe(k))]

\* lines 712-717: candidate k has an option in every month
Viavel(k) == \A mes \in 1..MaxMeses : TabelaDoCandidato(k)[mes] # <<>>

\* lines 732-736: the objective of an index vector over a table
ObjetivoDe(opcoes, ind, fixo) ==
    Frac(fixo + SomaCampo(opcoes, ind, "custo_var", 1), SomaCampo(opcoes, ind, "carga", 1))

\* lines 739-766: months k..12 of one sweep, each decided on the vector as it stands
RECURSIVE VarreMeses(_, _, _, _, _)
VarreMeses(opcoes, ind, fixo, k, mudou) ==
    IF k > Len(opcoes) THEN [ind |-> ind, melhorou |-> mudou]
    ELSE LET carga == SomaCampo(opcoes, ind, "carga", 1)
             custo_var == SomaCampo(opcoes, ind, "custo_var", 1)
             r == MelhorOpcaoMes(opcoes[k], 1, ind[k], Frac(fixo + custo_var, carga),
                                 carga - opcoes[k][ind[k]].carga,
                                 custo_var - opcoes[k][ind[k]].custo_var, fixo)
         IN  IF r.idx # ind[k]
             THEN VarreMeses(opcoes, [ind EXCEPT ![k] = r.idx], fixo, k + 1, TRUE)
             ELSE VarreMeses(opcoes, ind, fixo, k + 1, mudou)

\* lines 726-766: sweeps until one changes nothing
RECURSIVE Descida(_, _, _)
Descida(opcoes, ind, fixo) ==
    LET r == VarreMeses(opcoes, ind, fixo, 1, FALSE)
    IN  IF r.melhorou THEN Descida(opcoes, r.ind, fixo) ELSE r.ind

\* lines 724-766: the converged index vector of a feasible candidate k
IndicesConvergidos(k) ==
    LET opcoes == TabelaDoCandidato(k)
    IN  Descida(opcoes, [mes \in 1..MaxMeses |-> (Len(opcoes[mes]) \div 2) + 1],
                CustoFixoDe(BhpInstaladoDe(k)))

\* the converged objective of a feasible candidate k
ObjetivoConvergido(k) ==
    ObjetivoDe(TabelaDoCandidato(k), IndicesConvergidos(k), CustoFixoDe(BhpInstaladoDe(k)))

\* the feasible candidates of the call
Viaveis == {k \in 1..MaxDesigns : Viavel(k)}

----------------------------------------------------------------------------
(* Sweep order, independence of candidates, power ceiling                  *)

\* C21: a sweep takes the months in order 1, 2, ..., and at every month the
\* running totals are those of the vector as it stands, changes accepted for
\* earlier months of the same sweep included.
C21_VarreduraSequencial ==
    [][/\ (pc = "while" /\ melhorou) => (pc' = "mes" /\ m' = 1)
       /\ pc = "mes" =>
            /\ IF m < MaxMeses THEN pc' = "mes" /\ m' = m + 1 ELSE pc' = "while"
            /\ total_carga' = SomaCampo(opcoes_meses, indices_escolhidos', "carga", 1)
            /\ total_custo_var' = SomaCampo(opcoes_meses, indices_escolhidos', "custo_var", 1)
            /\ total_carga - opcoes_meses[m][indices_escolhidos[m]].carga
                  = SomaCampo(opcoes_meses, [indices_escolhidos EXCEPT ![m] = 1], "carga", 1)
                        - opcoes_meses[m][1].carga]_vars

C21_Witness ==
    /\ pc = "while"
    /\ melhorou
    /\ Len(indices_escolhidos) = MaxMeses
    /\ \A k \in 1..MaxMeses : indices_escolhidos[k] # IndiceInicial(opcoes_meses[k])
    /\ total_carga = SomaCampo(opcoes_meses, indices_escolhidos, "carga", 1)

PontoDaGrade(v_op) == CHOOSE k \in 1..MaxVelOp : VelocidadeOp(k) = v_op

\* C23: every option of the current table needs, at its month and speed, no more
\* than 1.001 times the installed power, and every row of the best table respects
\* the ceiling of the best design.
C23_TetoDePotencia ==
    /\ \A mes \in 1..Len(opcoes_meses) : \A i \in 1..Len(opcoes_meses[mes]) :
           fisica[mes][PontoDaGrade(opcoes_meses[mes][i].v_op)].bhp_necessario * 1000
               <= bhp_instalado * 1001
    /\ melhor_cenario_global # <<>> =>
           \A mes \in 1..Len(melhor_tabela_mensal_global) :
               fisica[mes][PontoDaGrade(melhor_tabela_mensal_global[mes].v_op)].bhp_necessario
                   * 1000 <= melhor_cenario_global[1].bhp_ideal * 1001

C23_Witness ==
    /\ pc = "fim"
    /\ melhor_cenario_global # <<>>
    /\ melhor_cenario_global[1].bhp_ideal = BhpInstaladoDe(1)
    /\ \E mes \in 1..MaxMeses :
           /\ fisica[mes][PontoDaGrade(melhor_tabela_mensal_global[mes].v_op)].bhp_necessario
                  * 1000 = melhor_cenario_global[1].bhp_ideal * 1001
           /\ \E v \in 1..MaxVelOp :
                  /\ fisica[mes][v].bhp_necessario > 1001
                  /\ fisica[mes][v].carga > 0

----------------------------------------------------------------------------
(* Installed power of the annual simulator                                 *)

\* C24: a call of _simular_ano_operacional that gets past the arrangement has
\* the forced power as installed power when an override is supplied, and
\* otherwise an installed power sized for the design speed, the maximum of the
\* monthly speeds or the fixed speed.
C24_PotenciaInstalada ==
    (chamada.fn = "_simular_ano_operacional" /\ chamada.linha # 66) =>
        /\ chamada.args.override_bhp # <<>> =>
               chamada.loc.bhp_instalado = chamada.args.override_bhp
        /\ chamada.args.override_bhp = <<>> =>
               /\ chamada.loc.bhp_instalado # <<>>
               /\ chamada.loc.v_design =
                      IF chamada.args.velocidades_mensais # <<>>
                      THEN MaxSeq(chamada.args.velocidades_mensais)
                      ELSE VelFixa

----------------------------------------------------------------------------
(* Optimizer state, totals, curve, table, ties                             *)

\* the index vector selects one existing option in every month
IndicesValidos(ind) ==
    /\ Len(ind) = MaxMeses
    /\ Len(opcoes_meses) = MaxMeses
    /\ \A k \in 1..MaxMeses : (ind[k] - 1) \in 0..(Len(opcoes_meses[k]) - 1)

\* C25: while a candidate is optimized its index vector has one valid index per
\* month; the vector is created by the initial-state step and afterwards changed
\* only by the step of the sweep.
C25_VetorDeIndices ==
    [][/\ pc' \in {"while", "mes"} => IndicesValidos(indices_escolhidos')
       /\ indices_escolhidos' # indices_escolhidos => pc \in {"inicial", "mes"}]_vars

C25_Witness ==
    /\ pc = "mes"
    /\ d = 2
    /\ m = MaxMeses
    /\ IndicesValidos(indices_escolhidos)
    /\ indices_escolhidos[1] # IndiceInicial(opcoes_meses[1])

\* C26: after the start of a sweep and after every step of it, total cargo and
\* total variable cost are the sums over the chosen options, and the stored
\* objective is (fixed cost + total variable cost) / total cargo.
C26_TotaisDeAcordo ==
    [][(pc \in {"while", "mes"} /\ pc' \in {"while", "mes"}) =>
          /\ total_carga' = SomaCampo(opcoes_meses', indices_escolhidos', "carga", 1)
          /\ total_custo_var' = SomaCampo(opcoes_meses', indices_escolhidos', "custo_var", 1)
          /\ custo_global_atual' = Frac(CUSTO_FIXO_ANUAL' + total_custo_var', total_carga')]_vars

C26_Witness ==
    /\ Convergiu
    /\ IndiceMovido
    /\ custo_global_atual = Frac(CUSTO_FIXO_ANUAL + total_custo_var, total_carga)
    /\ total_carga = MaxMeses * MaxCarga

\* no speed of the month moves cargo
MesSemCarga(mes) == \A v \in 1..MaxVelOp : fisica[mes][v].carga = 0

\* C27: every stored option moves cargo, so the total cargo and every trial
\* denominator of the descent are positive; a candidate with a month in which no
\* speed moves cargo gets no entry in the curve.
C27_CargaPositiva ==
    /\ \A mes \in 1..Len(opcoes_meses) : \A i \in 1..Len(opcoes_meses[mes]) :
           opcoes_meses[mes][i].carga > 0
    /\ (pc = "mes" \/ Convergiu) =>
           /\ total_carga > 0
           /\ custo_global_atual.den > 0
           /\ \A mes \in 1..MaxMeses : \A i \in 1..Len(opcoes_meses[mes]) :
                  ObjetivoCom(mes, i).den > 0
    /\ (\E mes \in 1..MaxMeses : MesSemCarga(mes)) =>
           /\ historico_simulacoes = <<>>
           /\ pc \in {"design", "tabela", "fim"}

C27_Witness ==
    /\ pc = "fim"
    /\ historico_simulacoes = <<>>
    /\ \A mes \in 1..MaxMeses : CaladoMesBusca(lista_prof_meses[mes]) > 0
    /\ MesSemCarga(MaxMeses)
    /\ ~MesSemCarga(1)

\* C28: the curve holds, in increasing design speed, one entry for each feasible
\* candidate already evaluated, with that candidate's converged objective, and
\* nothing for the infeasible ones.
C28_CurvaPorCandidato ==
    pc \in {"design", "fim"} =>
        LET feitos == {k \in Viaveis : k < d}
        IN  /\ Len(historico_simulacoes) = Cardinality(feitos)
            /\ \A j \in 1..Len(historico_simulacoes) :
                   \E k \in feitos :
                       /\ historico_simulacoes[j].v_design = VelocidadeProjeto(k)
                       /\ historico_simulacoes[j].custo_ton = ObjetivoConvergido(k)
            /\ \A i, j \in 1..Len(historico_simulacoes) :
                   i < j => historico_simulacoes[i].v_design < historico_simulacoes[j].v_design

C28_Witness ==
    /\ pc = "fim"
    /\ Len(historico_simulacoes) = 1
    /\ historico_simulacoes[1].v_design = VelocidadeProjeto(2)
    /\ ~Viavel(1)
    /\ IndiceMovido

\* the candidate named by the best design
Vencedor == CHOOSE k \in 1..MaxDesigns :
                VelocidadeProjeto(k) = melhor_cenario_global[1].v_design_otima

RECURSIVE SomaCargaTabela(_, _)
\* the cargo of rows k.. of a monthly table
SomaCargaTabela(tabela, k) ==
    IF k > Len(tabela) THEN 0 ELSE tabela[k].carga + SomaCargaTabela(tabela, k + 1)

\* C29: the table kept with the best design has one row per month, in order,
\* each row the option the best candidate's converged vector selects; the rows'
\* cargo adds up to the best design's annual cargo.
C29_TabelaDoVencedor ==
    melhor_cenario_global # <<>> =>
        LET opcoes == TabelaDoCandidato(Vencedor)
            ind == IndicesConvergidos(Vencedor)
            tabela == melhor_tabela_mensal_global
        IN  /\ Len(tabela) = MaxMeses
            /\ \A mes \in 1..MaxMeses :
                   /\ tabela[mes].Mes = mes
                   /\ tabela[mes].v_op = opcoes[mes][ind[mes]].v_op
                   /\ tabela[mes].carga = opcoes[mes][ind[mes]].carga
                   /\ tabela[mes].calado = opcoes[mes][ind[mes]].calado
            /\ SomaCargaTabela(tabela, 1) = melhor_cenario_global[1].carga_anual
            /\ melhor_cenario_global[1].bhp_ideal = BhpInstaladoDe(Vencedor)

C29_Witness ==
    /\ pc = "fim"
    /\ melhor_cenario_global # <<>>
    /\ Vencedor = 2
    /\ Viavel(1)
    /\ \E mes \in 1..MaxMeses :
           melhor_tabela_mensal_global[mes].v_op
               # TabelaDoCandidato(1)[mes][IndicesConvergidos(1)[mes]].v_op

\* C30: the best design changes only for a candidate whose converged objective
\* is strictly lower, so among candidates of equal objective the one of lowest
\* design speed is kept.
C30_EmpateFicaOPrimeiro ==
    [][/\ melhor_cenario_global' # melhor_cenario_global =>
            /\ pc = "while"
            /\ FracLt(custo_global_atual, menor_custo_global)
            /\ melhor_cenario_global'[1].v_design_otima = VelocidadeProjeto(d)
       /\ melhor_cenario_global' # <<>> =>
            \A j \in 1..Len(historico_simulacoes') :
                FracEq(historico_simulacoes'[j].custo_ton, menor_custo_global')
                    => melhor_cenario_global'[1].v_design_otima
                           <= historico_simulacoes'[j].v_design]_vars

C30_Witness ==
    /\ pc = "fim"
    /\ Len(historico_simulacoes) = 2
    /\ FracEq(historico_simulacoes[1].custo_ton, historico_simulacoes[2].custo_ton)
    /\ melhor_cenario_global # <<>>
    /\ melhor_cenario_global[1].v_design_otima = historico_simulacoes[1].v_design

====
